---- MODULE Spec2Model ----
(***************************************************************************)
(* Sustaining Audit (sustaining_audit_app.py): the four tables, the        *)
(* request handlers that write them and the reports that read them.        *)
(*                                                                         *)
(* One step of the model is one database transaction of a handler: a       *)
(* handler that commits once is one action, new_audit (POST), which        *)
(* commits twice, is two.  Rows are records, a table is a set of rows, a   *)
(* nullable column holds None == {} or a one-element set.  Strings that    *)
(* the code trims, parses or sanitises are sequences of one-character      *)
(* strings so that the conversion is computed, not assumed.                *)
(***************************************************************************)
EXTENDS Integers, Sequences, FiniteSets, TLC

VARIABLES category, checklist_item, audit, audit_item, proc, resp,
          pct_in, pct_out, photo_in, photo_out

vars == <<category, checklist_item, audit, audit_item, proc, resp,
          pct_in, pct_out, photo_in, photo_out>>

db == <<category, checklist_item, audit, audit_item>>
pure == <<pct_in, pct_out, photo_in, photo_out>>

\* ---------------------------------------------------------------- bounds
MaxCategories == 2
MaxChecklist == 2
MaxAuditId == 2
MaxAuditItemId == 4
NumWorkers == 1

\* ------------------------------------------------------- values, helpers
None == {}
Some(x) == {x}
Val(o) == CHOOSE x \in o : TRUE

Digits == <<"0", "1", "2", "3", "4", "5", "6", "7", "8", "9">>
IsDigit(c) == \E k \in 1..10 : Digits[k] = c
DigitVal(c) == (CHOOSE k \in 1..10 : Digits[k] = c) - 1

RECURSIVE Number(_)
Number(s) ==
    IF s = <<>> THEN 0
    ELSE 10 * Number(SubSeq(s, 1, Len(s) - 1)) + DigitVal(s[Len(s)])

AllDigits(s) == \A k \in 1..Len(s) : IsDigit(s[k])

\* str.strip(): leading and trailing whitespace removed.
IsSpace(c) == c = " "

RECURSIVE LStrip(_)
LStrip(s) == IF s # <<>> /\ IsSpace(s[1]) THEN LStrip(Tail(s)) ELSE s

RECURSIVE RStrip(_)
RStrip(s) ==
    IF s # <<>> /\ IsSpace(s[Len(s)]) THEN RStrip(SubSeq(s, 1, Len(s) - 1)) ELSE s

Strip(s) == RStrip(LStrip(s))

\* A call that may raise returns Some(value), or Raised when it raises ValueError.
Raised == {}

\* int(score): the value of a decimal literal, or ValueError.
PyInt(s) == IF s # <<>> /\ AllDigits(s) THEN Some(Number(s)) ELSE Raised

\* datetime.fromisoformat(s).date() for the YYYY-MM-DD form an <input type=date>
\* submits: the calendar date <<y, m, d>>, or ValueError.
IsLeap(y) == (y % 4 = 0 /\ y % 100 # 0) \/ y % 400 = 0
DaysInMonth(y, m) ==
    IF m = 2 THEN (IF IsLeap(y) THEN 29 ELSE 28)
    ELSE IF m \in {4, 6, 9, 11} THEN 30 ELSE 31

fromisoformat(s) ==
    IF Len(s) # 10 \/ s[5] # "-" \/ s[8] # "-" THEN Raised
    ELSE LET ys == SubSeq(s, 1, 4)
             ms == SubSeq(s, 6, 7)
             ds == SubSeq(s, 9, 10)
         IN  IF ~(AllDigits(ys) /\ AllDigits(ms) /\ AllDigits(ds)) THEN Raised
             ELSE LET y == Number(ys)
                      m == Number(ms)
                      d == Number(ds)
                  IN  IF y >= 1 /\ m \in 1..12 /\ d >= 1 /\ d <= DaysInMonth(y, m)
                      THEN Some(<<y, m, d>>)
                      ELSE Raised

\* INTEGER PRIMARY KEY without AUTOINCREMENT: the largest id in the table plus one.
Max(S) == CHOOSE x \in S : \A y \in S : y <= x
NextId(table) == IF table = {} THEN 1 ELSE Max({r.id : r \in table}) + 1

RECURSIVE OrderById(_)
OrderById(rows) ==
    IF rows = {} THEN <<>>
    ELSE LET m == CHOOSE r \in rows : \A q \in rows : r.id <= q.id
         IN  <<m>> \o OrderById(rows \ {m})

Ids(rowseq) == [k \in 1..Len(rowseq) |-> rowseq[k].id]

\* Model.query.get(id): the row, or None.
Get(table, id) == {r \in table : r.id = id}

\* audit.audit_items: the backref of AuditItem.audit.
audit_items(a) == {ai \in audit_item : ai.audit_id = a.id}

\* ------------------------------------------------------------- responses
Response(op, status, arg, flash, body) ==
    [op |-> op, status |-> status, arg |-> arg, flash |-> flash, body |-> body]

NoResponse == Response("none", 0, 0, "", <<>>)

\* ai.checklist_item.category.name raises AttributeError when the category row
\* does not exist (category is None); ai.audit.vendor when the audit row does not.
CategoryOf(ai) ==
    LET ci == Get(checklist_item, ai.checklist_item_id)
    IN  IF ci = {} THEN {} ELSE Get(category, Val(ci).category_id)

HasCategory(ai) == CategoryOf(ai) # {}
HasAudit(ai) == Get(audit, ai.audit_id) # {}

\* ------------------------------------------------- audits_list: percentages
\* f"{pct:.1f}" of num / den * 100, as a number of tenths (333 is "33.3"):
\* rounded to the nearest tenth, a tie to the even one.
Format1(num, den) ==
    LET n == 1000 * num
        q == n \div den
        r == n % den
    IN  IF 2 * r > den THEN q + 1
        ELSE IF 2 * r = den THEN (IF q % 2 = 1 THEN q + 1 ELSE q)
        ELSE q

\* Mutant of Pct: the full score of an item (3) left out of the denominator.
PctOfCount(sum, count) == IF count # 0 THEN Format1(sum, count) ELSE 0

Pct(sum, count) == IF count # 0 THEN Format1(sum, count * 3) ELSE 0

\* The loop over a.audit_items: its[k] is [cat |-> category name, score |-> Some(n) or None].
RECURSIVE Accumulate(_, _, _)
Accumulate(its, k, acc) ==
    IF k > Len(its) THEN acc
    ELSE LET cat == its[k].cat
             sc == its[k].score
             cs0 == IF cat \in DOMAIN acc.category_scores
                    THEN acc.category_scores
                    ELSE [c \in DOMAIN acc.category_scores \cup {cat} |->
                            IF c = cat THEN [sum |-> 0, count |-> 0]
                            ELSE acc.category_scores[c]]
             cs1 == [cs0 EXCEPT ![cat] =
                        [sum |-> IF sc # None THEN @.sum + Val(sc) ELSE @.sum,
                         count |-> @.count + 1]]
         IN  Accumulate(its, k + 1,
                 [category_scores |-> cs1,
                  total_score |-> IF sc # None THEN acc.total_score + Val(sc)
                                  ELSE acc.total_score,
                  total_items |-> acc.total_items + 1])

Percentages(its) ==
    LET acc == Accumulate(its, 1,
                   [category_scores |-> <<>>, total_score |-> 0, total_items |-> 0])
    IN  [cats |-> [c \in DOMAIN acc.category_scores |->
                      Pct(acc.category_scores[c].sum, acc.category_scores[c].count)],
         total |-> Pct(acc.total_score, acc.total_items)]

\* --------------------------------------------------- new_audit: photo name
RECURSIVE Decimal(_)
Decimal(n) ==
    IF n < 10 THEN <<Digits[n + 1]>>
    ELSE Decimal(n \div 10) \o <<Digits[(n % 10) + 1]>>

Letters ==
    {"a", "b", "c", "d", "e", "f", "g", "h", "i", "j", "k", "l", "m",
     "n", "o", "p", "q", "r", "s", "t", "u", "v", "w", "x", "y", "z",
     "A", "B", "C", "D", "E", "F", "G", "H", "I", "J", "K", "L", "M",
     "N", "O", "P", "Q", "R", "S", "T", "U", "V", "W", "X", "Y", "Z"}

\* werkzeug's _filename_ascii_strip_re removes what is not in [A-Za-z0-9_.-].
IsSafe(c) == c \in Letters \/ IsDigit(c) \/ c \in {"_", ".", "-"}

RECURSIVE KeepSafe(_)
KeepSafe(s) ==
    IF s = <<>> THEN <<>>
    ELSE (IF IsSafe(s[1]) THEN <<s[1]>> ELSE <<>>) \o KeepSafe(Tail(s))

\* "_".join(filename.split()): runs of whitespace become one "_", those at the
\* ends are dropped.
RECURSIVE Collapse(_)
Collapse(s) ==
    IF s = <<>> THEN <<>>
    ELSE IF IsSpace(s[1]) THEN <<"_">> \o Collapse(LStrip(s))
    ELSE <<s[1]>> \o Collapse(Tail(s))

JoinWords(s) == Collapse(Strip(s))

\* str.strip("._")
IsDotOrUnderscore(c) == c \in {".", "_"}

RECURSIVE StripEnds(_)
StripEnds(s) ==
    IF s # <<>> /\ IsDotOrUnderscore(s[1]) THEN StripEnds(Tail(s))
    ELSE IF s # <<>> /\ IsDotOrUnderscore(s[Len(s)])
    THEN StripEnds(SubSeq(s, 1, Len(s) - 1))
    ELSE s

\* werkzeug.utils.secure_filename on an ASCII name, os.sep = "/", no altsep.
secure_filename(filename) ==
    LET spaced == [k \in 1..Len(filename) |->
                      IF filename[k] = "/" THEN " " ELSE filename[k]]
    IN  StripEnds(KeepSafe(JoinWords(spaced)))

\* Mutant of StoredName: the item id left out of the name.
StoredNameWithoutItem(audit_id, item_id, filename) ==
    secure_filename(Decimal(audit_id) \o <<"_">> \o filename)

\* secure_filename(f"{audit.id}_{item.id}_{photo.filename}")
StoredName(audit_id, item_id, filename) ==
    secure_filename(Decimal(audit_id) \o <<"_">> \o Decimal(item_id) \o <<"_">> \o filename)

\* ------------------------------------------------------------ Checklist
\* Mutant of checklist_category: the lookup made with the name as submitted.
checklist_category_untrimmed(raw) ==
    LET name == Strip(raw)
    IN  /\ IF name # <<>> /\ ~\E c \in category : c.name = raw
           THEN /\ Cardinality(category) < MaxCategories
                /\ category' = category \cup {[id |-> NextId(category), name |-> name]}
                /\ resp' = Response("category", 302, 0, "Category added", <<>>)
           ELSE /\ category' = category
                /\ resp' = Response("category", 302, 0, "Category exists or empty", <<>>)
        /\ UNCHANGED <<checklist_item, audit, audit_item, proc, pure>>

\* POST /checklist with category_name.
checklist_category(raw) ==
    LET name == Strip(raw)
    IN  /\ IF name # <<>> /\ ~\E c \in category : c.name = name
           THEN /\ Cardinality(category) < MaxCategories
                /\ category' = category \cup {[id |-> NextId(category), name |-> name]}
                /\ resp' = Response("category", 302, 0, "Category added", <<>>)
           ELSE /\ category' = category
                /\ resp' = Response("category", 302, 0, "Category exists or empty", <<>>)
        /\ UNCHANGED <<checklist_item, audit, audit_item, proc, pure>>

\* POST /checklist with item_id.
checklist_update(item_id, text, original_spec) ==
    LET item == Get(checklist_item, item_id)
    IN  /\ IF item = {}
           THEN \* item is None: item.text = ... raises AttributeError
                /\ checklist_item' = checklist_item
                /\ resp' = Response("update", 500, item_id, "", <<>>)
           ELSE /\ checklist_item' = (checklist_item \ item) \cup
                       {[Val(item) EXCEPT !.text = text, !.original_spec = original_spec]}
                /\ resp' = Response("update", 302, item_id, "Checklist item updated", <<>>)
        /\ UNCHANGED <<category, audit, audit_item, proc, pure>>

\* POST /checklist with item_text (and no item_id).
checklist_item_add(category_id, raw_text, raw_spec) ==
    LET text == Strip(raw_text)
        original_spec == Strip(raw_spec)
    IN  /\ IF text # <<>>
           THEN /\ Cardinality(checklist_item) < MaxChecklist
                /\ checklist_item' = checklist_item \cup
                       {[id |-> NextId(checklist_item), category_id |-> category_id,
                         text |-> text, original_spec |-> original_spec]}
                /\ resp' = Response("item", 302, 0, "Checklist item added", <<>>)
           ELSE /\ checklist_item' = checklist_item
                /\ resp' = Response("item", 302, 0, "", <<>>)
        /\ UNCHANGED <<category, audit, audit_item, proc, pure>>

\* order_by(Category.name): SQLite compares the names byte by byte.
Ord(c) == CASE c = " " -> 32 [] c = "S" -> 83 [] c = "c" -> 99 [] c = "s" -> 115

NameLess(x, y) ==
    \E k \in 1..(Len(x) + 1) :
        /\ k <= Len(y)
        /\ \A j \in 1..(k - 1) : x[j] = y[j]
        /\ k = Len(x) + 1 \/ Ord(x[k]) < Ord(y[k])

RECURSIVE OrderByName(_)
OrderByName(rows) ==
    IF rows = {} THEN <<>>
    ELSE LET m == CHOOSE r \in rows : \A q \in rows \ {r} : NameLess(r.name, q.name)
         IN  <<m>> \o OrderByName(rows \ {m})

\* GET /checklist: the categories by name, the items by id.
checklist_page ==
    /\ resp' = Response("checklist", 200, 0, "",
                   <<OrderByName(category), Ids(OrderById(checklist_item))>>)
    /\ UNCHANGED <<db, proc, pure>>

\* ------------------------------------------------------------ New Audit
Workers == 1..NumWorkers
Idle == [pc |-> "idle", items |-> <<>>, audit_id |-> 0]

\* POST /audits/new up to the first commit: both queries, the three header fields,
\* the Audit row. A worker takes the request when it is not inside the item loop.
new_audit_header(w, vendor, date_s, audit_area) ==
    LET items == Ids(OrderById(checklist_item))
        audit_date == fromisoformat(date_s)
        id == NextId(audit)
    IN  /\ proc[w].pc # "loop"
        /\ IF audit_date = Raised
           THEN /\ audit' = audit
                /\ proc' = [proc EXCEPT ![w] = Idle]
                /\ resp' = Response("new_audit", 500, 0, "", <<>>)
           ELSE /\ id <= MaxAuditId
                /\ audit' = audit \cup
                       {[id |-> id, vendor |-> vendor, audit_date |-> Val(audit_date),
                         audit_area |-> audit_area]}
                /\ proc' = [proc EXCEPT ![w] =
                               [pc |-> "loop", items |-> items, audit_id |-> id]]
                /\ resp' = resp
        /\ UNCHANGED <<category, checklist_item, audit_item, pure>>

\* int(score) if score else None: the score column's value (Some(n) or None), or
\* Raised.
ScoreOf(score) ==
    IF score # <<>>
    THEN (IF PyInt(score) = Raised THEN Raised ELSE Some(PyInt(score)))
    ELSE Some(None)

\* Mutant of NewItems: an item with no submitted score gets no row.
NewItemsScoredOnly(items, audit_id, form) ==
    {[id |-> NextId(audit_item) + k - 1, audit_id |-> audit_id,
      checklist_item_id |-> items[k], score |-> Val(ScoreOf(form[items[k]]))]
        : k \in {j \in 1..Len(items) : form[items[j]] # <<>>}}

\* The AuditItem rows the loop adds, in the order it adds them; the flush gives
\* them consecutive ids.
NewItems(items, audit_id, form) ==
    {[id |-> NextId(audit_item) + k - 1, audit_id |-> audit_id,
      checklist_item_id |-> items[k], score |-> Val(ScoreOf(form[items[k]]))]
        : k \in 1..Len(items)}

Range(seq) == {seq[k] : k \in 1..Len(seq)}

\* The item loop and the second commit; form maps each item id to the submitted
\* score_<id> field ("" when none was submitted).
new_audit_items(w, form) ==
    /\ proc[w].pc = "loop"
    /\ \A i \in Range(proc[w].items) : ScoreOf(form[i]) # Raised
    /\ NextId(audit_item) + Len(proc[w].items) - 1 <= MaxAuditItemId
    /\ audit_item' = audit_item \cup NewItems(proc[w].items, proc[w].audit_id, form)
    /\ proc' = [proc EXCEPT ![w] = Idle]
    /\ resp' = Response("new_audit", 302, proc[w].audit_id, "Audit created successfully!", <<>>)
    /\ UNCHANGED <<category, checklist_item, audit, pure>>

\* The item loop raising ValueError at int(score): the request ends with the rows
\* added so far still pending, and the session is rolled back.
new_audit_error(w, form) ==
    /\ proc[w].pc = "loop"
    /\ \E i \in Range(proc[w].items) : ScoreOf(form[i]) = Raised
    /\ proc' = [proc EXCEPT ![w].pc = "failed"]
    /\ resp' = Response("new_audit", 500, proc[w].audit_id, "", <<>>)
    /\ UNCHANGED <<db, pure>>

\* --------------------------------------------------------- Delete Audit
\* Mutant of delete_audit: the Audit row deleted, its AuditItem rows left.
delete_audit_header_only(audit_id) ==
    LET a == Get(audit, audit_id)
    IN  /\ IF a = {}
           THEN /\ UNCHANGED <<audit, audit_item>>
                /\ resp' = Response("delete", 404, audit_id, "", <<>>)
           ELSE /\ audit_item' = audit_item
                /\ audit' = audit \ a
                /\ resp' = Response("delete", 302, audit_id, "Audit deleted successfully.", <<>>)
        /\ UNCHANGED <<category, checklist_item, proc, pure>>

delete_audit(audit_id) ==
    LET a == Get(audit, audit_id)
    IN  /\ IF a = {}
           THEN /\ UNCHANGED <<audit, audit_item>>
                /\ resp' = Response("delete", 404, audit_id, "", <<>>)
           ELSE /\ audit_item' = audit_item \ audit_items(Val(a))
                /\ audit' = audit \ a
                /\ resp' = Response("delete", 302, audit_id, "Audit deleted successfully.", <<>>)
        /\ UNCHANGED <<category, checklist_item, proc, pure>>

\* ---------------------------------------------------------- Audits List
DateLess(d, e) ==
    \/ d[1] < e[1]
    \/ d[1] = e[1] /\ d[2] < e[2]
    \/ d[1] = e[1] /\ d[2] = e[2] /\ d[3] < e[3]

\* order_by(Audit.audit_date.desc()); equal dates in id order.
RECURSIVE OrderByDateDesc(_)
OrderByDateDesc(rows) ==
    IF rows = {} THEN <<>>
    ELSE LET m == CHOOSE r \in rows : \A q \in rows :
                      \/ DateLess(q.audit_date, r.audit_date)
                      \/ q.audit_date = r.audit_date /\ r.id <= q.id
         IN  <<m>> \o OrderByDateDesc(rows \ {m})

ScoredItems(a) ==
    LET its == OrderById(audit_items(a))
    IN  [k \in 1..Len(its) |->
            [cat |-> Val(CategoryOf(its[k])).name, score |-> its[k].score]]

audits_list ==
    LET audits == OrderByDateDesc(audit)
    IN  /\ IF \E a \in audit : \E ai \in audit_items(a) : ~HasCategory(ai)
           THEN resp' = Response("audits", 500, 0, "", <<>>)
           ELSE resp' = Response("audits", 200, 0, "",
                    [k \in 1..Len(audits) |->
                        [id |-> audits[k].id, pct |-> Percentages(ScoredItems(audits[k]))]])
        /\ UNCHANGED <<db, proc, pure>>

\* ---------------------------------------------------------- Export Audit
export_audit(audit_id) ==
    LET a == Get(audit, audit_id)
    IN  /\ IF a = {}
           THEN resp' = Response("export", 404, audit_id, "", <<>>)
           ELSE IF \E ai \in audit_items(Val(a)) : ~HasCategory(ai)
           THEN resp' = Response("export", 500, audit_id, "", <<>>)
           ELSE LET its == OrderById(audit_items(Val(a)))
                IN  resp' = Response("export", 200, audit_id, "",
                        [k \in 1..Len(its) |->
                            [No |-> k, Item |-> its[k].id, Score |-> its[k].score]])
        /\ UNCHANGED <<db, proc, pure>>

\* ------------------------------------------------------------ MIL Export
\* SQL comparison: NULL when an operand is NULL; WHERE keeps a row only when the
\* condition is TRUE.
SqlNe(x, y) == IF x = None \/ y = None THEN "NULL" ELSE IF x # y THEN "TRUE" ELSE "FALSE"

\* AuditItem.query.filter(AuditItem.score != 3).order_by(AuditItem.id).all()
MilQuery == OrderById({ai \in audit_item : SqlNe(ai.score, Some(3)) = "TRUE"})

MilStatus(ai) == IF ai.score = None \/ Val(ai.score) < 3 THEN "Open" ELSE "Closed"

export_mil ==
    LET q == MilQuery
    IN  /\ IF \E k \in 1..Len(q) : ~HasCategory(q[k]) \/ ~HasAudit(q[k])
           THEN resp' = Response("mil", 500, 0, "", <<>>)
           ELSE IF q = <<>>
           THEN resp' = Response("mil", 302, 0, "No MIL items.", <<>>)
           ELSE resp' = Response("mil", 200, 0, "",
                    [k \in 1..Len(q) |->
                        [No |-> k, Item |-> q[k].id, Status |-> MilStatus(q[k])]])
        /\ UNCHANGED <<db, proc, pure>>

\* ---------------------------------------------------------- specification
\* The header fields a request submits: <<vendor, audit_date, audit_area>>.
ValidDate == <<"2", "0", "2", "4", "-", "0", "2", "-", "2", "9">>
NoSuchDay == <<"2", "0", "2", "3", "-", "0", "2", "-", "2", "9">>
ValidHeader == <<"Acme", ValidDate, "Line 1">>
HeaderInputs == {ValidHeader, <<"Acme", NoSuchDay, "Line 1">>}
ScoreInputs == { <<>>, <<"0">>, <<"3">>, <<"x">> }
ItemIds == 1..MaxChecklist
AuditIds == 1..MaxAuditId

Init ==
    /\ category = {}
    /\ checklist_item = {}
    /\ audit = {}
    /\ audit_item = {}
    /\ proc = [w \in Workers |-> Idle]
    /\ resp = NoResponse
    /\ pct_in = <<>>
    /\ pct_out = {}
    /\ photo_in = <<>>
    /\ photo_out = {}

Next ==
    \/ checklist_category(<<"S">>)
    \/ checklist_item_add(1, <<"c">>, <<>>)
    \/ \E w \in Workers, h \in HeaderInputs : new_audit_header(w, h[1], h[2], h[3])
    \/ \E w \in Workers, form \in [ItemIds -> ScoreInputs] : new_audit_items(w, form)
    \/ \E w \in Workers, form \in [ItemIds -> ScoreInputs] : new_audit_error(w, form)
    \/ \E id \in AuditIds : delete_audit(id)
    \/ audits_list
    \/ \E id \in AuditIds : export_audit(id)
    \/ export_mil

Spec == Init /\ [][Next]_vars

\* ------------------------------------------- specification: header fields
\* POST /audits/new with every combination of empty and filled header fields,
\* on an empty checklist.
EmptyHeaders ==
    { <<"", ValidDate, "Line 1">>, <<"Acme", ValidDate, "">>, <<"Acme", <<>>, "Line 1">> }

NextHeader ==
    \/ \E w \in Workers, h \in HeaderInputs \cup EmptyHeaders :
           new_audit_header(w, h[1], h[2], h[3])
    \/ \E w \in Workers : new_audit_items(w, [i \in ItemIds |-> <<>>])
    \/ \E id \in AuditIds : delete_audit(id)
    \/ \E id \in AuditIds : export_audit(id)
    \/ audits_list

SpecHeader == Init /\ [][NextHeader]_vars

\* ----------------------------------------------- specification: checklist
SeqsUpTo(S, n) == UNION {[1..k -> S] : k \in 0..n}

MaxRawLen == 2
RawNames == SeqsUpTo({" ", "S", "s"}, MaxRawLen)

NextCategory ==
    \/ \E raw \in RawNames : checklist_category(raw)
    \/ checklist_page

SpecCategory == Init /\ [][NextCategory]_vars

TextInputs == { <<>>, <<" ">>, <<"c">>, <<" ", "c">> }
OriginalSpecInputs == { <<>>, <<"s">> }
CategoryIds == 1..MaxCategories
UpdateIds == 1..(MaxChecklist + 1)

NextChecklist ==
    \/ checklist_category(<<"S">>)
    \/ \E c \in CategoryIds, t \in TextInputs, o \in OriginalSpecInputs :
           checklist_item_add(c, t, o)
    \/ \E i \in UpdateIds, t \in TextInputs, o \in OriginalSpecInputs :
           checklist_update(i, t, o)
    \/ checklist_page

SpecChecklist == Init /\ [][NextChecklist]_vars

\* --------------------------------------------- specification: percentages
\* One row of the audits list: the percentages of one audit's items.
MaxPctItems == 3
PctCategories == {"Safety", "5S"}
PctScores == {None} \cup {Some(n) : n \in 0..3}
PctItems == [cat : PctCategories, score : PctScores]

InitPct ==
    /\ category = {}
    /\ checklist_item = {}
    /\ audit = {}
    /\ audit_item = {}
    /\ proc = [w \in Workers |-> Idle]
    /\ resp = NoResponse
    /\ pct_in \in SeqsUpTo(PctItems, MaxPctItems)
    /\ pct_out = {}
    /\ photo_in = <<>>
    /\ photo_out = {}

audits_list_row ==
    /\ pct_out = {}
    /\ pct_out' = Some(Percentages(pct_in))
    /\ UNCHANGED <<db, proc, resp, pct_in, photo_in, photo_out>>

NextPct == audits_list_row

SpecPct == InitPct /\ [][NextPct]_vars

\* --------------------------------------------- specification: photo names
\* One photo of one item of one audit: the name it is saved under.
MaxNameLen == 2
MaxPhotoId == 12
PhotoIds == 1..MaxPhotoId
FileChars == {"1", "a", "_", ".", "/", "$"}
PhotoNames == SeqsUpTo(FileChars, MaxNameLen) \ {<<>>}
Uploads == PhotoIds \X PhotoIds \X PhotoNames

InitPhoto ==
    /\ category = {}
    /\ checklist_item = {}
    /\ audit = {}
    /\ audit_item = {}
    /\ proc = [w \in Workers |-> Idle]
    /\ resp = NoResponse
    /\ pct_in = <<>>
    /\ pct_out = {}
    /\ photo_in \in Uploads
    /\ photo_out = {}

\* if photo and photo.filename: filename = secure_filename(...); photo.save(...)
photo_save ==
    /\ photo_out = {}
    /\ photo_out' = Some(StoredName(photo_in[1], photo_in[2], photo_in[3]))
    /\ UNCHANGED <<db, proc, resp, pct_in, pct_out, photo_in>>

NextPhoto == photo_save

SpecPhoto == InitPhoto /\ [][NextPhoto]_vars

\* ================================================================ claims
Abs(x) == IF x < 0 THEN -x ELSE x

\* ---------------------------------------------------------------------------
\* C1: createAudit is atomic: in every reachable state a persisted Audit owns an
\* AuditItem for every ChecklistItem that existed when it was created, also while
\* its request is between the two commits and after its item loop has failed.
\* (The ChecklistItems that existed at creation are the request's own list.)
C1_AuditHasFullItemSet ==
    \A w \in Workers :
        proc[w].pc \in {"loop", "failed"} =>
            \A a \in Get(audit, proc[w].audit_id) :
                \A i \in Range(proc[w].items) :
                    \E ai \in audit_items(a) : ai.checklist_item_id = i

\* ---------------------------------------------------------------------------
\* C2: a createAudit that completes adds exactly one Audit row (at its first
\* commit) and exactly N AuditItem rows owned by it (at its second), N the number
\* of checklist items, one row per checklist item, with a null score where no
\* score was submitted.
C2_HeaderStep(w, h) ==
    (new_audit_header(w, h[1], h[2], h[3]) /\ proc'[w].pc = "loop") =>
        /\ audit \subseteq audit'
        /\ Cardinality(audit' \ audit) = 1
        /\ \A a \in audit' \ audit : a.id = proc'[w].audit_id
        /\ Len(proc'[w].items) = Cardinality(checklist_item)
        /\ Range(proc'[w].items) = {c.id : c \in checklist_item}

C2_ItemsStep(w, form) ==
    new_audit_items(w, form) =>
        LET added == audit_item' \ audit_item
        IN  /\ audit_item \subseteq audit_item'
            /\ audit' = audit
            /\ Cardinality(added) = Len(proc[w].items)
            /\ \A ai \in added : ai.audit_id = proc[w].audit_id
            /\ \A i \in Range(proc[w].items) :
                   /\ Cardinality({ai \in added : ai.checklist_item_id = i}) = 1
                   /\ form[i] = <<>> =>
                          \A ai \in added : ai.checklist_item_id = i => ai.score = None

\* C2: every createAudit step adds one Audit row, then one AuditItem row per
\* checklist item.
C2_CreateAddsOnePerItem ==
    [][ /\ \A w \in Workers, h \in HeaderInputs : C2_HeaderStep(w, h)
        /\ \A w \in Workers, form \in [ItemIds -> ScoreInputs] : C2_ItemsStep(w, form)
      ]_vars

\* A two-item audit has just been created, one item scored and one not.
C2_Witness ==
    /\ resp.op = "new_audit" /\ resp.status = 302
    /\ Cardinality(checklist_item) = 2
    /\ \E a \in Get(audit, resp.arg) :
           /\ Cardinality(audit_items(a)) = 2
           /\ \E ai \in audit_items(a) : ai.score = None
           /\ \E ai \in audit_items(a) : ai.score # None

\* ---------------------------------------------------------------------------
\* C3: exportMIL selects exactly the AuditItems whose score is not 3 (those with
\* score 0, 1, 2 or null), in ascending id order.
C3_MilSelectsAllButThree ==
    Ids(MilQuery) = Ids(OrderById({ai \in audit_item : ai.score # Some(3)}))

\* ---------------------------------------------------------------------------
\* C4: a deleteAudit(id) that succeeds leaves no Audit row with that id and no
\* AuditItem row owned by it; a deleteAudit of an id that does not exist answers
\* not-found and changes no row; an exportAudit(id) while there is no Audit row
\* with that id answers not-found, and a listAudits lists exactly the Audit rows
\* there are, so neither shows a deleted audit.
C4_DeleteStep(id) ==
    delete_audit(id) =>
        IF Get(audit, id) # {}
        THEN /\ resp'.status = 302
             /\ Get(audit', id) = {}
             /\ ~\E ai \in audit_item' : ai.audit_id = id
             /\ audit' = audit \ Get(audit, id)
             /\ audit_item' = {ai \in audit_item : ai.audit_id # id}
        ELSE /\ resp'.status = 404
             /\ UNCHANGED db

C4_ExportStep(id) ==
    (export_audit(id) /\ Get(audit, id) = {}) => resp'.status = 404 /\ UNCHANGED db

C4_ListStep ==
    (audits_list /\ resp'.status = 200) =>
        {resp'.body[k].id : k \in 1..Len(resp'.body)} = {a.id : a \in audit}

C5_InvalidHeaderCreatesNothing ==
    [][ \A w \in Workers, h \in HeaderInputs \cup EmptyHeaders :
            (/\ new_audit_header(w, h[1], h[2], h[3])
             /\ (h[1] = "" \/ h[3] = "" \/ h[2] = <<>> \/ fromisoformat(h[2]) = Raised))
                => UNCHANGED <<audit, audit_item>>
      ]_vars

\* ---------------------------------------------------------------------------
\* C6: updateChecklistItem overwrites the text and spec of an item that exists;
\* on an item id that does not exist it answers not-found and changes no row.
C6_UpdateOrNotFound ==
    [][ \A i \in UpdateIds, t \in TextInputs, o \in OriginalSpecInputs :
            checklist_update(i, t, o) =>
                IF Get(checklist_item, i) # {}
                THEN \E c \in Get(checklist_item', i) :
                         c.text = t /\ c.original_spec = o
                ELSE resp'.status = 404 /\ UNCHANGED db
      ]_vars

\* ---------------------------------------------------------------------------
\* C7: after any sequence of addCategory calls there is at most one Category row
\* per trimmed name, and no row with an empty one; a call with a name that exists
\* already or is empty after trimming inserts nothing and is answered with the
\* rejection message, any other call with the confirmation.
C7_Step(raw) ==
    checklist_category(raw) =>
        IF Strip(raw) = <<>> \/ \E c \in category : c.name = Strip(raw)
        THEN category' = category /\ resp'.flash = "Category exists or empty"
        ELSE /\ Cardinality(category') = Cardinality(category) + 1
             /\ \E c \in category' : c.name = Strip(raw)
             /\ resp'.flash = "Category added"

\* C7: one Category row per trimmed name, and every addCategory step answers
\* as stated.
C7_OneRowPerName ==
    /\ [](\A c, d \in category : c.name = d.name => c = d)
    /\ [](\A c \in category : c.name # <<>> /\ Strip(c.name) = c.name)
    /\ [][\A raw \in RawNames : C7_Step(raw)]_vars

\* A second call with a name that exists has just been rejected.
C7_Witness ==
    /\ resp.flash = "Category exists or empty"
    /\ Cardinality(category) = 2
    /\ \E c \in category : c.name = <<"S">>
    /\ \E c \in category : c.name = <<"s">>

\* ---------------------------------------------------------------------------
\* C8: each category percentage is (sum of the scores of the category's items,
\* an unscored item counting 0) / (number of those items x 3) x 100 to one
\* decimal, the overall percentage the same over all items; no items give 0;
\* [3, 0, null] in one category gives 33.3, [2, 3] gives 83.3 for both.
RECURSIVE SumScores(_, _)
SumScores(its, idx) ==
    IF idx = {} THEN 0
    ELSE LET k == CHOOSE j \in idx : TRUE
         IN  (IF its[k].score = None THEN 0 ELSE Val(its[k].score))
                 + SumScores(its, idx \ {k})

\* tenths is num / den x 100 to the nearest tenth.
Nearest(tenths, num, den) == 2 * Abs(1000 * num - tenths * den) <= den

ScoresAre(its, scores) ==
    /\ Len(its) = Len(scores)
    /\ \A k \in 1..Len(its) : its[k].score = scores[k] /\ its[k].cat = its[1].cat

\* C8: the percentages computed are those of the formula.
C8_Percentages ==
    pct_out # {} =>
        LET out == Val(pct_out)
            all == 1..Len(pct_in)
            cats == {pct_in[k].cat : k \in all}
        IN  /\ DOMAIN out.cats = cats
            /\ \A c \in cats :
                   LET idx == {k \in all : pct_in[k].cat = c}
                   IN  Nearest(out.cats[c], SumScores(pct_in, idx), 3 * Cardinality(idx))
            /\ IF all = {} THEN out.total = 0
               ELSE Nearest(out.total, SumScores(pct_in, all), 3 * Len(pct_in))
            /\ ScoresAre(pct_in, <<Some(3), Some(0), None>>) =>
                   out.cats[pct_in[1].cat] = 333
            /\ ScoresAre(pct_in, <<Some(2), Some(3)>>) =>
                   out.cats[pct_in[1].cat] = 833 /\ out.total = 833

\* The row of an audit whose three items, of one category, are scored 3, 0 and not.
C8_Witness ==
    /\ pct_out # {}
    /\ ScoresAre(pct_in, <<Some(3), Some(0), None>>)
    /\ Val(pct_out).cats[pct_in[1].cat] = 333

\* ---------------------------------------------------------------------------
\* C9: two uploads that differ in audit id or in item id never get the same stored
\* filename, whatever their original filenames; photo.jpg of items 1 and 2 of
\* audit 7 is stored as 7_1_photo.jpg and 7_2_photo.jpg.
\* Every upload's <<audit id, item id, stored filename>>.
StoredNames == {<<u[1], u[2], StoredName(u[1], u[2], u[3])>> : u \in Uploads}
photo_jpg == <<"p", "h", "o", "t", "o", ".", "j", "p", "g">>

\* C9: no upload of another (audit, item) pair has the stored filename of this one.
C9_NoCollision ==
    photo_out # {} =>
        /\ \A a \in PhotoIds, i \in PhotoIds :
               (a # photo_in[1] \/ i # photo_in[2]) =>
                   <<a, i, Val(photo_out)>> \notin StoredNames
        /\ StoredName(7, 1, photo_jpg) = <<"7", "_", "1", "_">> \o photo_jpg
        /\ StoredName(7, 1, photo_jpg) # StoredName(7, 2, photo_jpg)

\* A photo whose original name holds a digit and an underscore has been stored
\* for item 11 of audit 1.
C9_Witness ==
    /\ photo_out # {}
    /\ photo_in = <<1, 11, <<"1", "_">>>>
    /\ Val(photo_out) = <<"1", "_", "1", "1", "_", "1">>

\* ---------------------------------------------------------------------------
\* C10: in every reachable state every AuditItem row references an Audit row
\* that exists.
C10_NoItemWithoutAudit ==
    \A ai \in audit_item : HasAudit(ai)
====
